---- MODULE Spec2Model ----
(***************************************************************************)
(* Model of zerospeech2020/validation/utils.py: validate_yaml,             *)
(* validate_code and validate_directory.                                   *)
(*                                                                         *)
(* Entry names are modelled as the naturals 1..N, the number standing for  *)
(* the rank of the name in lexicographic order ("a" < "b" < "c" ...), so   *)
(* that sorted() is ascending order on the numbers.  A raised ValueError   *)
(* is a result whose kind is the fixed part of its message.                *)
(***************************************************************************)
EXTENDS Naturals, Sequences, FiniteSets

\* ------------------------------------------------------------------ bounds
MaxKeys == 2
MaxDocLen == 2
MaxNames == 3

Keys == 1..MaxKeys
Names == 1..MaxNames

\* ------------------------------------------------------- python's values
\* type(v).__name__ of the values a YAML mapping holds in the model
ValueKinds == {"NoneType", "str", "int"}

\* what a schema maps a key to: None (no constraint) or a type
Constraints == {"None", "int"}

\* a dict key -> constraint, as a function on a subset of Keys
Schemas == UNION {[D -> Constraints] : D \in SUBSET Keys}

\* the (key, value) pairs of a mapping in document order, keys distinct
DocItems == UNION {{s \in [1..n -> [k : Keys, v : ValueKinds]] : \A i, j \in 1..n : s[i].k = s[j].k => i = j} : n \in 0..MaxDocLen}

\* top-level scalars a YAML document can load to, by their text
ScalarDocs == [tag : {"doc"}, kind : {"str"}, val : {"", "x"}, items : {<<>>}] \cup [tag : {"doc"}, kind : {"int"}, val : {"0", "1"}, items : {<<>>}] \cup [tag : {"doc"}, kind : {"bool"}, val : {"false", "true"}, items : {<<>>}]

\* a top-level sequence, val is its length
ListDocs == [tag : {"doc"}, kind : {"list"}, val : {"0", "1"}, items : {<<>>}]

\* a top-level mapping
DictDocs == [tag : {"doc"}, kind : {"dict"}, val : {""}, items : DocItems]

\* an empty document loads to None
NoneDoc == [tag |-> "doc", kind |-> "NoneType", val |-> "", items |-> <<>>]

NoFile == [tag |-> "absent", kind |-> "", val |-> "", items |-> <<>>]

\* what `filename` can be: no file, a file yaml cannot load, a loaded document
Files == {NoFile, [tag |-> "malformed", kind |-> "", val |-> "", items |-> <<>>], NoneDoc} \cup ScalarDocs \cup ListDocs \cup DictDocs

\* what `directory` can be: not a directory, or a directory with its children
NoDir == [isdir |-> FALSE, listing |-> {}]

Dirs == {NoDir} \cup [isdir : {TRUE}, listing : SUBSET Names]

\* the default of the parameter optional_entries, {}
NoOptional == <<>>

\* ------------------------------------------------------- message kinds
NotFoundError == "file not found"
ParseError == "failed to parse"
EmptyFileError == "file is empty"
MissingEntriesError == "entries are missing"
ForbiddenEntriesError == "entries are forbidden"
EmptyValueError == "entry is empty"
TypeMismatchError == "must be of type"
UnexpectedContentError == "declared closed source but directory is not empty"
MissingDirectoryError == "declared open source but missing folder"
EmptyDirectoryError == "declared open source but empty folder"
DirNotFoundError == "directory not found"
ExtraFilesError == "directory contains extra files or directories"
MissingFilesError == "directory has missing files or directories"
Returned == "return"

MsgValidating == "validating %s directory ..."
MsgInspect == "found a non-empty directory, it will be manually inspected"

\* ------------------------------------------------------- helpers
RECURSIVE sorted(_)
sorted(S) ==
  IF S = {} THEN <<>>
  ELSE LET m == CHOOSE x \in S : \A y \in S : x <= y
       IN <<m>> \o sorted(S \ {m})

InSeq(e, s) == \E i \in 1..Len(s) : s[i] = e

Range(s) == {s[i] : i \in 1..Len(s)}

\* mutant: only None counts as empty (if metadata is None)
Truthy_OnlyNone(d) == d.kind /= "NoneType"

\* python's truth value of a loaded document
Truthy(d) ==
  CASE d.kind = "NoneType" -> FALSE
    [] d.kind = "str" -> d.val /= ""
    [] d.kind = "int" -> d.val /= "0"
    [] d.kind = "bool" -> d.val = "true"
    [] d.kind = "list" -> d.val /= "0"
    [] d.kind = "dict" -> d.items /= <<>>

\* metadata.keys() exists (no AttributeError)
HasKeys(d) == d.kind = "dict"

MetadataKeys(items) == {items[i].k : i \in 1..Len(items)}

\* mutant: the type test always passes
Isinstance_Always(v, t) == TRUE

\* isinstance(v, t): bool is a subclass of int
Isinstance(v, t) == v = t \/ (v = "bool" /\ t = "int")

\* entries.update(optional_entries)
Update(entries, optional_entries) ==
  [k \in (DOMAIN entries) \cup (DOMAIN optional_entries) |->
     IF k \in DOMAIN optional_entries THEN optional_entries[k] ELSE entries[k]]

Raise(kind, names, entries) == [kind |-> kind, names |-> names, ret |-> <<>>, entries |-> entries]

\* [e for e in mandatory if e not in mandatory]
Missing(mandatory, existing) == SelectSeq(mandatory, LAMBDA e : ~InSeq(e, mandatory))

\* [e for e in existing if e not in mandatory + optional]
Extra(existing, mandatory, optional) == SelectSeq(existing, LAMBDA e : ~InSeq(e, mandatory \o optional))

\* mutant: the loop without its test for None
RECURSIVE CheckItems_NoNoneTest(_, _, _)
CheckItems_NoNoneTest(items, i, entries) ==
  IF i > Len(items) THEN [kind |-> Returned, names |-> <<>>, ret |-> items, entries |-> entries]
  ELSE IF entries[items[i].k] /= "None" /\ ~Isinstance(items[i].v, entries[items[i].k])
       THEN Raise(TypeMismatchError, <<items[i].k>>, entries)
  ELSE CheckItems_NoNoneTest(items, i + 1, entries)

\* the loop over metadata.items(), from item i on
RECURSIVE CheckItems(_, _, _)
CheckItems(items, i, entries) ==
  IF i > Len(items) THEN [kind |-> Returned, names |-> <<>>, ret |-> items, entries |-> entries]
  ELSE IF items[i].v = "NoneType" THEN Raise(EmptyValueError, <<items[i].k>>, entries)
  ELSE IF entries[items[i].k] /= "None" /\ ~Isinstance(items[i].v, entries[items[i].k])
       THEN Raise(TypeMismatchError, <<items[i].k>>, entries)
  ELSE CheckItems(items, i + 1, entries)

validate_yaml(file, entries, optional_entries) ==
  IF file.tag = "absent" THEN Raise(NotFoundError, <<>>, entries)
  ELSE IF file.tag = "malformed" THEN Raise(ParseError, <<>>, entries)
  ELSE IF ~Truthy(file) THEN Raise(EmptyFileError, <<>>, entries)
  ELSE LET mandatory == sorted(DOMAIN entries)
       IN IF ~HasKeys(file) THEN Raise(ParseError, <<>>, entries)
          ELSE LET existing == sorted(MetadataKeys(file.items))
                   missing == Missing(mandatory, existing)
                   optional == sorted(DOMAIN optional_entries)
                   extra == Extra(existing, mandatory, optional)
               IN IF missing /= <<>> THEN Raise(MissingEntriesError, missing, entries)
                  ELSE IF extra /= <<>> THEN Raise(ForbiddenEntriesError, extra, entries)
                  ELSE CheckItems(file.items, 1, Update(entries, optional_entries))

\* ------------------------------------------------------- validate_code
\* mutant: the log.info at the start is missing
validate_code_NoStartLog(directory, is_open_source) ==
  IF ~is_open_source /\ directory.isdir /\ directory.listing /= {}
  THEN [kind |-> UnexpectedContentError, log |-> <<>>]
  ELSE IF is_open_source
       THEN IF ~directory.isdir THEN [kind |-> MissingDirectoryError, log |-> <<>>]
            ELSE IF directory.listing = {} THEN [kind |-> EmptyDirectoryError, log |-> <<>>]
            ELSE [kind |-> Returned, log |-> <<MsgInspect>>]
       ELSE [kind |-> Returned, log |-> <<>>]

\* mutant: closed source does not tolerate an empty directory
validate_code_NoTolerance(directory, is_open_source) ==
  IF ~is_open_source /\ directory.isdir
  THEN [kind |-> UnexpectedContentError, log |-> <<MsgValidating>>]
  ELSE IF is_open_source
       THEN IF ~directory.isdir THEN [kind |-> MissingDirectoryError, log |-> <<MsgValidating>>]
            ELSE IF directory.listing = {} THEN [kind |-> EmptyDirectoryError, log |-> <<MsgValidating>>]
            ELSE [kind |-> Returned, log |-> <<MsgValidating, MsgInspect>>]
       ELSE [kind |-> Returned, log |-> <<MsgValidating>>]

validate_code(directory, is_open_source) ==
  LET started == <<MsgValidating>>
  IN IF ~is_open_source /\ directory.isdir /\ directory.listing /= {}
     THEN [kind |-> UnexpectedContentError, log |-> started]
     ELSE IF is_open_source
          THEN IF ~directory.isdir THEN [kind |-> MissingDirectoryError, log |-> started]
               ELSE IF directory.listing = {} THEN [kind |-> EmptyDirectoryError, log |-> started]
               ELSE [kind |-> Returned, log |-> started \o <<MsgInspect>>]
          ELSE [kind |-> Returned, log |-> started]

\* ------------------------------------------------------- validate_directory
\* the sequences ", ".join(S) can go through: a set has no defined order
RECURSIVE SetIter(_)
SetIter(S) ==
  IF S = {} THEN {<<>>}
  ELSE UNION {{<<x>> \o s : s \in SetIter(S \ {x})} : x \in S}

\* mutant: the symmetric difference
DirExtra_Symmetric(existing, allowed) == (existing \ allowed) \cup (allowed \ existing)

\* existing - set(entries)
DirExtra(existing, allowed) == existing \ allowed

\* mutant: the operands swapped
DirMissing_Swapped(allowed, existing) == existing \ allowed

\* set(entries) - existing
DirMissing(allowed, existing) == allowed \ existing

\* the results the call can have, one per iteration order of the joined set
validate_directory(directory, allowed, all_exist) ==
  IF ~directory.isdir THEN {[kind |-> DirNotFoundError, names |-> <<>>, ret |-> {}]}
  ELSE LET existing == directory.listing
           extra == DirExtra(existing, allowed)
           missing == DirMissing(allowed, existing)
       IN IF extra /= {}
          THEN {[kind |-> ExtraFilesError, names |-> s, ret |-> {}] : s \in SetIter(extra)}
          ELSE IF all_exist /\ missing /= {}
          THEN {[kind |-> MissingFilesError, names |-> s, ret |-> {}] : s \in SetIter(missing)}
          ELSE {[kind |-> Returned, names |-> <<>>, ret |-> existing]}

\* ------------------------------------------------------- state
\* entries, optional_entries: the schema dicts the caller owns and passes
\* file, directory: what the paths passed by the caller hold on disk
\* call: the last call and its arguments as they were on entry
\* result: how the last call ended; log: the messages its log sink received
VARIABLES entries, optional_entries, file, directory, call, result, log

vars == <<entries, optional_entries, file, directory, call, result, log>>

NoCall == [op |-> "none"]

NoResult == [kind |-> "none", names |-> <<>>, ret |-> <<>>]

InitYaml ==
  /\ entries \in Schemas
  /\ optional_entries \in Schemas
  /\ file \in Files
  /\ directory = NoDir
  /\ call = NoCall
  /\ result = NoResult
  /\ log = <<>>

InitDir ==
  /\ entries = NoOptional
  /\ optional_entries = NoOptional
  /\ file = NoFile
  /\ directory \in Dirs
  /\ call = NoCall
  /\ result = NoResult
  /\ log = <<>>

\* validate_yaml(filename, name, entries) or
\* validate_yaml(filename, name, entries, optional_entries)
ValidateYaml ==
  \E optional \in {NoOptional, optional_entries} :
    LET r == validate_yaml(file, entries, optional)
    IN /\ call' = [op |-> "validate_yaml", entries |-> entries, optional |-> optional]
       /\ result' = [kind |-> r.kind, names |-> r.names, ret |-> r.ret]
       /\ entries' = r.entries
       /\ UNCHANGED <<optional_entries, file, directory, log>>

\* validate_code(directory, name, is_open_source, log)
ValidateCode ==
  \E is_open_source \in BOOLEAN :
    LET r == validate_code(directory, is_open_source)
    IN /\ call' = [op |-> "validate_code", is_open_source |-> is_open_source]
       /\ result' = [kind |-> r.kind, names |-> <<>>, ret |-> <<>>]
       /\ log' = r.log
       /\ UNCHANGED <<entries, optional_entries, file, directory>>

\* validate_directory(directory, name, entries, log, all_exist)
ValidateDirectory ==
  \E allowed \in SUBSET Names, all_exist \in BOOLEAN :
    /\ call' = [op |-> "validate_directory", allowed |-> allowed, all_exist |-> all_exist]
    /\ result' \in validate_directory(directory, allowed, all_exist)
    /\ log' = <<MsgValidating>>
    /\ UNCHANGED <<entries, optional_entries, file, directory>>

NextDir == ValidateCode \/ ValidateDirectory

SpecYaml == InitYaml /\ [][ValidateYaml]_vars

SpecDir == InitDir /\ [][NextDir]_vars

\* ------------------------------------------------------- properties
CalledYaml == call.op = "validate_yaml"

CalledCode == call.op = "validate_code"

CalledDirectory == call.op = "validate_directory"

FileIsMapping == file.tag = "doc" /\ file.kind = "dict"

FileIsScalar == file.tag = "doc" /\ file.kind \in {"str", "int", "bool"}

FileKeys == {file.items[i].k : i \in 1..Len(file.items)}

NullAt(i) == file.items[i].v = "NoneType"

HasNull == \E i \in 1..Len(file.items) : NullAt(i)

\* the keys either schema of the call declares
DeclaredKeys == (DOMAIN call.entries) \cup (DOMAIN call.optional)

\* the constraint the call's schemas declare for k, optional_entries' one
\* standing for a key both declare
Declared(k) == IF k \in DOMAIN call.optional THEN call.optional[k] ELSE call.entries[k]

\* value kind v meets constraint t
Meets(v, t) == t = "None" \/ v = t \/ (v = "bool" /\ t = "int")

\* C1: a non-empty mapping that omits mandatory keys makes validate_yaml
\* fail with MissingEntriesError naming exactly the omitted keys
C1_MissingMandatoryReported ==
  (CalledYaml /\ FileIsMapping /\ file.items /= <<>> /\ (DOMAIN call.entries) \ FileKeys /= {})
    => (result.kind = MissingEntriesError /\ Range(result.names) = (DOMAIN call.entries) \ FileKeys)

\* C2: after any call of validate_yaml the caller's mandatory schema holds
\* exactly the keys and constraints it held on entry
C2_SchemaUntouched == CalledYaml => entries = call.entries

\* C3 as claimed: open source and exactly one file in the directory gives a
\* return and exactly one message in the log sink
C3_OneMessage ==
  (CalledCode /\ call.is_open_source /\ directory.isdir /\ Cardinality(directory.listing) = 1)
    => (result.kind = Returned /\ Len(log) = 1)

\* C3 amended: open source and exactly one file in the directory gives a
\* return and exactly two messages in the log sink, the "validating" one and
\* then the "will be manually inspected" one
C3_TwoMessages ==
  (CalledCode /\ call.is_open_source /\ directory.isdir /\ Cardinality(directory.listing) = 1)
    => (result.kind = Returned /\ log = <<MsgValidating, MsgInspect>>)

C3_Witness ==
  CalledCode /\ call.is_open_source /\ directory.isdir /\ Cardinality(directory.listing) = 1 /\ result.kind = Returned

\* C4 as claimed: a mapping with a null value always fails with
\* EmptyValueError
C4_NullIsEmptyValueError ==
  (CalledYaml /\ FileIsMapping /\ HasNull) => result.kind = EmptyValueError

\* C4 amended: a mapping with a null value never returns; when it holds
\* every mandatory key it fails with ForbiddenEntriesError if a key is outside
\* both schemas, otherwise with TypeMismatchError for the first wrongly typed
\* key if one precedes the first null value in document order, otherwise with
\* EmptyValueError naming the first null-valued key whatever constraint is
\* declared for it
C4_NullValueFails ==
  (CalledYaml /\ FileIsMapping /\ HasNull) =>
    LET firstNull == CHOOSE i \in 1..Len(file.items) : NullAt(i) /\ \A j \in 1..Len(file.items) : j < i => ~NullAt(j)
        badBefore == {i \in 1..Len(file.items) : i < firstNull /\ ~Meets(file.items[i].v, Declared(file.items[i].k))}
    IN /\ result.kind /= Returned
       /\ (DOMAIN call.entries) \subseteq FileKeys =>
            IF ~(FileKeys \subseteq DeclaredKeys) THEN result.kind = ForbiddenEntriesError
            ELSE IF badBefore /= {}
                 THEN /\ result.kind = TypeMismatchError
                      /\ \E i \in badBefore : result.names = <<file.items[i].k>> /\ \A j \in badBefore : i <= j
            ELSE result.kind = EmptyValueError /\ result.names = <<file.items[firstNull].k>>

C4_Witness ==
  /\ CalledYaml /\ FileIsMapping /\ HasNull
  /\ (DOMAIN call.entries) \subseteq FileKeys
  /\ (DOMAIN call.entries) /= {}
  /\ result.kind = EmptyValueError
  /\ Declared(result.names[1]) = "int"
  /\ Len(file.items) > 1

\* C5 as claimed: a top-level scalar always fails with ParseError
C5_ScalarIsParseError ==
  (CalledYaml /\ FileIsScalar) => result.kind = ParseError

\* C5 amended: a top-level scalar fails with ParseError when it is truthy (a
\* non-empty string, a non-zero number, true) and with EmptyFileError when it
\* is falsy (the empty string, 0, false)
C5_ScalarFails ==
  (CalledYaml /\ FileIsScalar) =>
    IF file.val \in {"", "0", "false"} THEN result.kind = EmptyFileError ELSE result.kind = ParseError

C5_Witness ==
  CalledYaml /\ FileIsScalar /\ file.kind = "str" /\ file.val = "x" /\ result.kind = ParseError

\* C6: the names in validate_directory's extra and missing errors are in
\* sorted order
C6_NamesSorted ==
  (CalledDirectory /\ result.kind \in {ExtraFilesError, MissingFilesError})
    => \A i, j \in 1..Len(result.names) : i < j => result.names[i] < result.names[j]

\* C7: without all_exist, on an existing directory, validate_directory fails
\* with the extra-entries error exactly when the listing has a name outside
\* the allowed entries, names exactly listing minus allowed, and otherwise
\* returns the full listing
C7_ForbiddenExactly ==
  (CalledDirectory /\ ~call.all_exist /\ directory.isdir) =>
    IF directory.listing \ call.allowed /= {}
    THEN /\ result.kind = ExtraFilesError
         /\ Range(result.names) = directory.listing \ call.allowed
         /\ Len(result.names) = Cardinality(directory.listing \ call.allowed)
    ELSE result.kind = Returned /\ result.ret = directory.listing

C7_Witness ==
  /\ CalledDirectory /\ ~call.all_exist /\ directory.isdir
  /\ result.kind = ExtraFilesError
  /\ call.allowed \ directory.listing /= {}
  /\ call.allowed \cap directory.listing /= {}

\* C8: with all_exist, on an existing directory whose listing is within the
\* allowed entries, validate_directory fails with the missing-entries error
\* naming exactly allowed minus listing when that is non-empty, and returns
\* only a listing equal to the allowed entries
C8_MissingExactly ==
  (CalledDirectory /\ call.all_exist /\ directory.isdir /\ directory.listing \subseteq call.allowed) =>
    /\ (call.allowed \ directory.listing /= {}) =>
         /\ result.kind = MissingFilesError
         /\ Range(result.names) = call.allowed \ directory.listing
         /\ Len(result.names) = Cardinality(call.allowed \ directory.listing)
    /\ (result.kind = Returned) => (result.ret = call.allowed /\ result.ret = directory.listing)

C8_Witness ==
  /\ CalledDirectory /\ call.all_exist /\ directory.isdir
  /\ directory.listing \subseteq call.allowed
  /\ directory.listing /= {}
  /\ result.kind = MissingFilesError

\* C9: closed source fails (the closed-source error) exactly when the
\* directory exists and is non-empty; otherwise it returns and the "will be
\* manually inspected" message is not logged
C9_ClosedSource ==
  (CalledCode /\ ~call.is_open_source) =>
    IF directory.isdir /\ directory.listing /= {}
    THEN result.kind = UnexpectedContentError
    ELSE result.kind = Returned /\ \A i \in 1..Len(log) : log[i] /= MsgInspect

C9_Witness ==
  CalledCode /\ ~call.is_open_source /\ directory.isdir /\ directory.listing = {} /\ result.kind = Returned

\* C10: whenever validate_yaml returns, the returned mapping is the parsed
\* file's, and every key of it is declared by a schema of the call, has a
\* non-null value and a value meeting the constraint declared for it
C10_ReturnedIsValid ==
  (CalledYaml /\ result.kind = Returned) =>
    /\ FileIsMapping
    /\ result.ret = file.items
    /\ \A i \in 1..Len(file.items) :
         /\ file.items[i].k \in DeclaredKeys
         /\ file.items[i].v /= "NoneType"
         /\ Meets(file.items[i].v, Declared(file.items[i].k))

C10_Witness ==
  /\ CalledYaml /\ result.kind = Returned
  /\ Len(result.ret) > 1
  /\ \E i \in 1..Len(result.ret) : Declared(result.ret[i].k) = "int"
  /\ \E i \in 1..Len(result.ret) : result.ret[i].k \in DOMAIN call.optional /\ result.ret[i].k \notin DOMAIN call.entries
====
